---- MODULE Spec2Model ----
(***************************************************************************)
(* State-machine model of the nikkansports converter (src/app.py):        *)
(* the Streamlit session state of each browser session, the credential    *)
(* table kept in it, the login / logout / admin handlers and the two      *)
(* conversion sub-workflows (markdown, qa).  One action is one script run *)
(* triggered by one click, including the st.rerun() that may end it.      *)
(***************************************************************************)
EXTENDS Integers, Sequences, FiniteSets, TLC

VARIABLES
    session_state,  \* per session: st.session_state, a partial map key -> value
    secrets,        \* st.secrets of the process (read-only configuration)
    shown,          \* per session: the messages on screen when the run ends
    applied,        \* history variable, per session and sub-workflow: how
                    \* many revisions were applied to the stored result
                    \* since the conversion that produced its base
    in_flight       \* per session: the calls to the generation service that
                    \* were issued by a run and have not returned

vars == <<session_state, secrets, shown, applied, in_flight>>

(***************************************************************************)
(* Bounds of the model.                                                    *)
(***************************************************************************)
MaxHist == 2        \* most revisions applied in a session
MaxClears == 1      \* largest value of widget_key explored

Sessions == {"s1", "s2"}
MainSession == "s1"
Kinds == {"markdown", "qa"}

None == "None"

(***************************************************************************)
(* Partial maps (Python dicts, st.session_state).                          *)
(***************************************************************************)
Has(d, k) == k \in DOMAIN d
Get(d, k, default) == IF k \in DOMAIN d THEN d[k] ELSE default
Put(d, k, v) == [x \in (DOMAIN d) \cup {k} |-> IF x = k THEN v ELSE d[x]]
Del(d, ks) == [x \in (DOMAIN d) \ ks |-> d[x]]
EmptyDict == [x \in {} |-> None]

(***************************************************************************)
(* Text values.  Passwords, manuscripts and revision requests are          *)
(* sequences of characters; " " is the whitespace character.               *)
(***************************************************************************)
Chars == <<"a", "d", "m", "i", "n", "1", "2", "3", "x">>
Code(c) == CHOOSE i \in 1..Len(Chars) : Chars[i] = c
DigestBase == Len(Chars) + 1

RECURSIVE lstrip(_)
lstrip(t) == IF t # <<>> /\ Head(t) = " " THEN lstrip(Tail(t)) ELSE t

RECURSIVE rstrip(_)
rstrip(t) ==
    IF t # <<>> /\ t[Len(t)] = " " THEN rstrip(SubSeq(t, 1, Len(t) - 1)) ELSE t

strip(t) == rstrip(lstrip(t))

(***************************************************************************)
(* hash_password: a one-way digest, modelled as an injective numbering of  *)
(* character sequences (no two passwords of the model collide).            *)
(***************************************************************************)
RECURSIVE hash_password(_)
hash_password(password) ==
    IF password = <<>> THEN 0
    ELSE hash_password(SubSeq(password, 1, Len(password) - 1)) * DigestBase
         + Code(password[Len(password)])

\* A check that accepts whatever has a digest.
verify_password_any_digest(password, hashed) == hash_password(password) >= 0

verify_password(password, hashed) == hash_password(password) = hashed

\* users[username].get('password', ''): the empty string is no digest.
NoDigest == 0 - 1

AdminDefaultPassword == <<"a", "d", "m", "i", "n", "1", "2", "3">>

UserRecord(name, hashed, role) ==
    [name |-> name, password |-> hashed, role |-> role]

BuiltinUsers ==
    [u \in {"admin"} |->
        UserRecord("kanrisha", hash_password(AdminDefaultPassword), "admin")]

get_initial_users(sec) ==
    IF Has(sec, "users") THEN sec["users"] ELSE BuiltinUsers

get_api_key(sec) == Get(sec, "ANTHROPIC_API_KEY", None)

\* get_users() as a read: the table the session works on.
get_users(ss) ==
    IF Has(ss, "users_db") THEN ss["users_db"] ELSE get_initial_users(secrets)

\* get_users() as a write: the lazy initialisation of users_db.
init_users(ss) == Put(ss, "users_db", get_users(ss))

add_user(ss, username, name, password, role) ==
    Put(ss, "users_db",
        Put(get_users(ss), username,
            UserRecord(name, hash_password(password), role)))

\* A delete without the protection of the admin record.
delete_user_unprotected(ss, username) ==
    IF Has(get_users(ss), username)
    THEN Put(ss, "users_db", Del(get_users(ss), {username}))
    ELSE init_users(ss)

delete_user(ss, username) ==
    IF Has(get_users(ss), username) /\ username # "admin"
    THEN Put(ss, "users_db", Del(get_users(ss), {username}))
    ELSE init_users(ss)

(***************************************************************************)
(* clear_workspace: removes the artifacts of BOTH sub-workflows and the    *)
(* listed input keys, then increments widget_key (absent counts as 0).     *)
(***************************************************************************)
keys_to_clear ==
    {"markdown_result", "qa_result", "original_filename", "original_article",
     "revision_history", "qa_revision_history", "proofread_report",
     "qa_proofread_report", "qa_filename", "md_article_input",
     "qa_article_input", "md_reporter", "md_revision_input",
     "qa_revision_input"}

\* A clear that forgets the qa proofread report.
clear_workspace_keeps_qa_report(ss) ==
    Put(Del(ss, keys_to_clear \ {"qa_proofread_report"}),
        "widget_key", Get(ss, "widget_key", 0) + 1)

clear_workspace(ss) ==
    Put(Del(ss, keys_to_clear), "widget_key", Get(ss, "widget_key", 0) + 1)

(***************************************************************************)
(* Session keys of a sub-workflow.                                         *)
(***************************************************************************)
ResultKey(kind) == IF kind = "markdown" THEN "markdown_result" ELSE "qa_result"
HistoryKey(kind) ==
    IF kind = "markdown" THEN "revision_history" ELSE "qa_revision_history"
ReportKey(kind) ==
    IF kind = "markdown" THEN "proofread_report" ELSE "qa_proofread_report"
FilenameKey(kind) ==
    IF kind = "markdown" THEN "original_filename" ELSE "qa_filename"
PayloadKey(kind) == IF kind = "markdown" THEN "markdown" ELSE "qa_text"
DirectInputFilename(kind) == IF kind = "markdown" THEN "markdown" ELSE "qa"

(***************************************************************************)
(* What the gateway (src/converter.py) can return.  The generation service *)
(* is an opaque collaborator: its reply is any payload, its failure any    *)
(* error string.  A proofread report is tagged with the text it was made   *)
(* from.                                                                   *)
(***************************************************************************)
Payloads == {"p1", "p2"}
ServiceErrors == {"e1", "e2"}
IssueCounts == {0, 1}

ConversionOk(kind, payload) ==
    [x \in {"success", PayloadKey(kind), "error"} |->
        CASE x = "success" -> TRUE
          [] x = "error" -> None
          [] OTHER -> payload]

ConversionFailed(kind, error) ==
    [x \in {"success", PayloadKey(kind), "error"} |->
        CASE x = "success" -> FALSE
          [] x = "error" -> error
          [] OTHER -> None]

\* Replies of the generation service to one request.
ServiceReplies ==
    {[ok |-> TRUE, text |-> p] : p \in Payloads}
        \cup {[ok |-> FALSE, error |-> e] : e \in ServiceErrors}

ProofreadReplies ==
    {[ok |-> TRUE, issues |-> n] : n \in IssueCounts}
        \cup {[ok |-> FALSE, error |-> "e1"]}

\* convert_to_markdown / convert_to_qa: the reply verbatim, or the error.
convert(kind, article_text, reply) ==
    IF reply.ok THEN ConversionOk(kind, reply.text)
    ELSE ConversionFailed(kind, reply.error)

\* revise_markdown / revise_qa.
revise(kind, text, revision_request, reply) ==
    IF reply.ok THEN ConversionOk(kind, reply.text)
    ELSE ConversionFailed(kind, reply.error)

Report(text) == <<"report", text>>

\* proofread_article / proofread_qa.
proofread(kind, text, reply) ==
    IF reply.ok
    THEN [success |-> TRUE, report |-> Report(text),
          issues_count |-> reply.issues, error |-> None]
    ELSE [success |-> FALSE, report |-> None, issues_count |-> 0,
          error |-> reply.error]

(***************************************************************************)
(* Messages on screen: st.success / st.warning / st.info / st.error.       *)
(***************************************************************************)
Msg(level, text) == [level |-> level, text |-> text]
MsgWith(level, text, detail) ==
    [level |-> level, text |-> text, detail |-> detail]
MsgCount(level, text, count) ==
    [level |-> level, text |-> text, count |-> count]
NoMessages == <<>>

(***************************************************************************)
(* main(): which page a run of the script renders.                         *)
(***************************************************************************)
Authenticated(ss) == Get(ss, "authenticated", FALSE)
Page(ss) == Get(ss, "page", "main")
LoginVisible(ss) == ~Authenticated(ss)

\* A routing that shows the admin page whatever the role.
AdminVisibleToAnyRole(ss) == Authenticated(ss) /\ Page(ss) = "admin"

AdminVisible(ss) ==
    Authenticated(ss) /\ Page(ss) = "admin" /\ Get(ss, "user_role", None) = "admin"
MainVisible(ss) == Authenticated(ss) /\ ~AdminVisible(ss)
TabsVisible(ss) == MainVisible(ss) /\ get_api_key(secrets) # None

(***************************************************************************)
(* Handlers.  Each returns the session state and the screen at the end of  *)
(* the run it triggers; a run ended by st.rerun() leaves no message.       *)
(***************************************************************************)
Run(ss, messages) == [ss |-> ss, shown |-> messages]

\* login_page: the password check of a known username.
check_password(users, username, password) ==
    verify_password(password, Get(users[username], "password", NoDigest))

\* login_page, form submit.
login_submit(ss, username, password) ==
    LET users == get_users(ss)
        ss1 == init_users(ss)
    IN  IF Has(users, username)
        THEN IF check_password(users, username, password)
             THEN Run(Put(Put(Put(Put(ss1,
                        "authenticated", TRUE),
                        "username", username),
                        "user_name", Get(users[username], "name", username)),
                        "user_role", Get(users[username], "role", "user")),
                      NoMessages)
             ELSE Run(ss1, <<Msg("error", "wrong_password")>>)
        ELSE Run(ss1, <<Msg("error", "user_not_found")>>)

\* A logout that also keeps the page and the generation counter.
logout_click_keeps_widgets(ss) ==
    Run(Del(ss, (DOMAIN ss) \ {"users_db", "page", "widget_key"}), NoMessages)

\* main_page, logout button.
logout_click(ss) == Run(Del(ss, (DOMAIN ss) \ {"users_db"}), NoMessages)

\* main_page, admin button (rendered for role admin only).
admin_click(ss) == Run(Put(ss, "page", "admin"), NoMessages)

\* admin_page, back button.
back_click(ss) == Run(Put(ss, "page", "main"), NoMessages)

\* admin_page, delete button of one listed user.
delete_click(ss, username) == Run(delete_user(ss, username), NoMessages)

\* An add form without the check for a username already in use.
add_submit_unchecked(ss, new_username, new_name, new_password, new_role) ==
    IF new_username # "" /\ new_name # "" /\ new_password # <<>>
    THEN Run(add_user(ss, new_username, new_name, new_password, new_role),
             NoMessages)
    ELSE Run(init_users(ss), <<Msg("error", "fill_all_fields")>>)

\* admin_page, add-user form submit.
add_submit(ss, new_username, new_name, new_password, new_role) ==
    LET users == get_users(ss)
    IN  IF new_username # "" /\ new_name # "" /\ new_password # <<>>
        THEN IF Has(users, new_username)
             THEN Run(init_users(ss), <<Msg("error", "duplicate_username")>>)
             ELSE Run(add_user(ss, new_username, new_name, new_password, new_role),
                      NoMessages)
        ELSE Run(init_users(ss), <<Msg("error", "fill_all_fields")>>)

\* markdown_tab / qa_tab, clear button.
clear_click(ss) == Run(clear_workspace(ss), NoMessages)

\* markdown_tab / qa_tab, convert button: what a successful convert stores.
convert_stored(ss0, kind, article_text, result) ==
    Put(Put(Put(IF kind = "markdown"
                THEN Put(ss0, "original_article", article_text)
                ELSE ss0,
        ResultKey(kind), result[PayloadKey(kind)]),
        FilenameKey(kind), DirectInputFilename(kind)),
        HistoryKey(kind), <<>>)

\* A failed convert that stores the (absent) payload of the failed result.
convert_failed_stores_payload(ss0, kind, result) ==
    Run(Put(ss0, ResultKey(kind), result[PayloadKey(kind)]),
        <<MsgWith("error", "convert_error", result["error"])>>)

\* markdown_tab / qa_tab, convert button: the branch of a failed convert.
convert_failed(ss0, kind, result) ==
    Run(ss0, <<MsgWith("error", "convert_error", result["error"])>>)

\* A proofread step whose failure takes the fresh result back.
convert_proofread_reverts(stored, kind, result, do_proofread, proofread_reply) ==
    LET proofread_result ==
            proofread(kind, result[PayloadKey(kind)], proofread_reply)
    IN  IF do_proofread /\ proofread_result.success
        THEN Run(Put(stored, ReportKey(kind), proofread_result.report),
                 <<Msg("success", "convert_done")>>)
        ELSE IF do_proofread
        THEN Run(Del(stored, {ResultKey(kind)}), <<Msg("success", "convert_done")>>)
        ELSE Run(stored, <<Msg("success", "convert_done")>>)

\* markdown_tab / qa_tab, convert button: the proofread of a fresh result.
convert_proofread(stored, kind, result, do_proofread, proofread_reply) ==
    LET proofread_result ==
            proofread(kind, result[PayloadKey(kind)], proofread_reply)
    IN  IF do_proofread /\ proofread_result.success
        THEN Run(Put(stored, ReportKey(kind), proofread_result.report),
                 <<Msg("success", "convert_done"),
                   IF proofread_result.issues_count > 0
                   THEN MsgCount("warning", "proofread_issues",
                                 proofread_result.issues_count)
                   ELSE Msg("info", "proofread_clean")>>)
        ELSE Run(stored, <<Msg("success", "convert_done")>>)

\* markdown_tab / qa_tab, convert button: the whole run.
convert_click(ss, kind, article_text, do_proofread, reply, proofread_reply) ==
    LET ss0 == Put(ss, HistoryKey(kind), <<>>)
        result == convert(kind, article_text, reply)
    IN  IF strip(article_text) = <<>>
        THEN Run(ss0, <<Msg("warning", "empty_input")>>)
        ELSE IF result["success"]
        THEN convert_proofread(convert_stored(ss0, kind, article_text, result),
                               kind, result, do_proofread, proofread_reply)
        ELSE convert_failed(ss0, kind, result)

\* markdown_tab / qa_tab, revise button: what a successful revise stores.
revise_stored(ss, kind, revision_request, revision_result) ==
    Put(Put(ss,
        HistoryKey(kind),
            Append(Get(ss, HistoryKey(kind), <<>>), revision_request)),
        ResultKey(kind), revision_result[PayloadKey(kind)])

\* A revise that records the request although the gateway failed.
revise_click_records_failed_request(ss, kind, revision_request, reply) ==
    LET revision_result ==
            revise(kind, ss[ResultKey(kind)], revision_request, reply)
    IN  IF strip(revision_request) = <<>>
        THEN Run(ss, <<Msg("warning", "empty_request")>>)
        ELSE IF revision_result["success"]
        THEN Run(revise_stored(ss, kind, revision_request, revision_result),
                 NoMessages)
        ELSE Run(Put(ss, HistoryKey(kind),
                     Append(Get(ss, HistoryKey(kind), <<>>), revision_request)),
                 <<MsgWith("error", "revise_error", revision_result["error"])>>)

\* A revise that sends the request without validating it.
revise_click_unvalidated(ss, kind, revision_request, reply) ==
    LET revision_result ==
            revise(kind, ss[ResultKey(kind)], revision_request, reply)
    IN  IF revision_result["success"]
        THEN Run(revise_stored(ss, kind, revision_request, revision_result),
                 NoMessages)
        ELSE Run(ss, <<MsgWith("error", "revise_error", revision_result["error"])>>)

\* markdown_tab / qa_tab, revise button (rendered once a result is stored).
revise_click(ss, kind, revision_request, reply) ==
    LET revision_result ==
            revise(kind, ss[ResultKey(kind)], revision_request, reply)
    IN  IF strip(revision_request) = <<>>
        THEN Run(ss, <<Msg("warning", "empty_request")>>)
        ELSE IF revision_result["success"]
        THEN Run(revise_stored(ss, kind, revision_request, revision_result),
                 NoMessages)
        ELSE Run(ss, <<MsgWith("error", "revise_error", revision_result["error"])>>)

(***************************************************************************)
(* Configuration and user input explored.                                  *)
(***************************************************************************)
ConfiguredUsers ==
    [u \in {"admin", "u1"} |->
        IF u = "admin"
        THEN UserRecord("Desk", hash_password(<<"1", "2", "3">>), "admin")
        ELSE UserRecord("Reporter", hash_password(<<"1">>), "user")]

SecretsChoices ==
    {[users |-> ConfiguredUsers], [ANTHROPIC_API_KEY |-> "sk"]}

LoginNames == {"admin", "u1", "u2"}
LoginPasswords == {AdminDefaultPassword, <<"1", "2", "3">>, <<"1">>, <<"x">>}
ArticleTexts == {<<>>, <<" ">>, <<"a">>}
RevisionRequests == {<<>>, <<" ">>, <<"a">>, <<"d">>}
NewUsernames == {"", "admin", "u2"}
NewNames == {"", "Staff"}
NewPasswords == {<<>>, <<"x">>}
Roles == {"user", "admin"}

(***************************************************************************)
(* Actions: one click in session s, with the input it carries.             *)
(***************************************************************************)
NoneApplied == [k \in Kinds |-> 0]

ApplyWith(s, run, counts) ==
    /\ session_state' = [session_state EXCEPT ![s] = run.ss]
    /\ shown' = [shown EXCEPT ![s] = run.shown]
    /\ applied' = [applied EXCEPT ![s] = counts]
    /\ UNCHANGED <<secrets, in_flight>>

Apply(s, run) == ApplyWith(s, run, applied[s])

\* Revision entries a session holds, over both sub-workflows.
StoredRevisions(ss) ==
    Len(Get(ss, "revision_history", <<>>))
        + Len(Get(ss, "qa_revision_history", <<>>))

LoginSubmit(s, username, password) ==
    /\ LoginVisible(session_state[s])
    /\ Apply(s, login_submit(session_state[s], username, password))

LogoutClick(s) ==
    /\ MainVisible(session_state[s])
    /\ ApplyWith(s, logout_click(session_state[s]), NoneApplied)

AdminClick(s) ==
    /\ MainVisible(session_state[s])
    /\ Get(session_state[s], "user_role", None) = "admin"
    /\ Apply(s, admin_click(session_state[s]))

BackClick(s) ==
    /\ AdminVisible(session_state[s])
    /\ Apply(s, back_click(session_state[s]))

DeleteClick(s, username) ==
    /\ AdminVisible(session_state[s])
    /\ Has(get_users(session_state[s]), username)
    /\ username # "admin"
    /\ Apply(s, delete_click(session_state[s], username))

AddSubmit(s, new_username, new_name, new_password, new_role) ==
    /\ AdminVisible(session_state[s])
    /\ Apply(s, add_submit(session_state[s], new_username, new_name,
                           new_password, new_role))

ClearClick(s, kind) ==
    /\ TabsVisible(session_state[s])
    /\ Get(session_state[s], "widget_key", 0) < MaxClears
    /\ ApplyWith(s, clear_click(session_state[s]), NoneApplied)

\* A convert click that produces a new base conversion.
ConvertSucceeds(kind, article_text, reply) ==
    strip(article_text) # <<>> /\ convert(kind, article_text, reply)["success"]

ConvertClick(s, kind, article_text, do_proofread, reply, proofread_reply) ==
    /\ TabsVisible(session_state[s])
    /\ ApplyWith(s,
            convert_click(session_state[s], kind, article_text, do_proofread,
                          reply, proofread_reply),
            IF ConvertSucceeds(kind, article_text, reply)
            THEN [applied[s] EXCEPT ![kind] = 0]
            ELSE applied[s])

\* A revise click whose request the gateway applies.
ReviseSucceeds(ss, kind, revision_request, reply) ==
    /\ strip(revision_request) # <<>>
    /\ revise(kind, ss[ResultKey(kind)], revision_request, reply)["success"]

ReviseClick(s, kind, revision_request, reply) ==
    /\ TabsVisible(session_state[s])
    /\ Has(session_state[s], ResultKey(kind))
    /\ StoredRevisions(session_state[s]) < MaxHist
    /\ applied[s]["markdown"] + applied[s]["qa"] < MaxHist
    /\ ApplyWith(s,
            revise_click(session_state[s], kind, revision_request, reply),
            IF ReviseSucceeds(session_state[s], kind, revision_request, reply)
            THEN [applied[s] EXCEPT ![kind] = @ + 1]
            ELSE applied[s])

(***************************************************************************)
(* Init: fresh sessions of a freshly started process.                      *)
(***************************************************************************)
Init ==
    /\ secrets \in SecretsChoices
    /\ session_state = [s \in Sessions |-> EmptyDict]
    /\ shown = [s \in Sessions |-> NoMessages]
    /\ applied = [s \in Sessions |-> NoneApplied]
    /\ in_flight = [s \in Sessions |-> {}]

Login(s) == \E u \in LoginNames, p \in LoginPasswords : LoginSubmit(s, u, p)
Delete(s) == \E u \in LoginNames : DeleteClick(s, u)
Add(s) ==
    \E u \in NewUsernames, n \in NewNames, p \in NewPasswords, r \in Roles :
        AddSubmit(s, u, n, p, r)
Clear(s) == \E k \in Kinds : ClearClick(s, k)

\* The replies of the calls a convert click makes: none for empty input,
\* and a proofread reply only after a successful convert with the option on.
NoCall == [ok |-> FALSE, error |-> None]
ConvertReplies(article_text) ==
    IF strip(article_text) = <<>> THEN {NoCall} ELSE ServiceReplies
ConvertProofreadReplies(article_text, do_proofread, reply) ==
    IF strip(article_text) # <<>> /\ reply.ok /\ do_proofread
    THEN ProofreadReplies
    ELSE {NoCall}

Convert(s) ==
    \E k \in Kinds, t \in ArticleTexts, dp \in BOOLEAN :
        \E r \in ConvertReplies(t) :
            \E pr \in ConvertProofreadReplies(t, dp, r) :
                ConvertClick(s, k, t, dp, r, pr)

\* The reply of the call a revise click makes: none for an empty request.
ReviseReplies(revision_request) ==
    IF strip(revision_request) = <<>> THEN {NoCall} ELSE ServiceReplies

Revise(s) ==
    \E k \in Kinds, q \in RevisionRequests :
        \E r \in ReviseReplies(q) : ReviseClick(s, k, q, r)

\* The conversion workflow of one session.
Next ==
    \E s \in {MainSession} :
        \/ Login(s)
        \/ LogoutClick(s)
        \/ Clear(s)
        \/ Convert(s)
        \/ Revise(s)

Spec == Init /\ [][Next]_vars

\* Credential administration and the pages of one session, with one
\* conversion, revision and clear per sub-workflow as session data.
SampleConvert(s) ==
    \E k \in Kinds :
        ConvertClick(s, k, <<"a">>, TRUE, [ok |-> TRUE, text |-> "p1"],
                     [ok |-> TRUE, issues |-> 0])
SampleRevise(s) ==
    \E k \in Kinds :
        ReviseClick(s, k, <<"d">>, [ok |-> TRUE, text |-> "p2"])

NextAdmin ==
    \E s \in {MainSession} :
        \/ Login(s)
        \/ LogoutClick(s)
        \/ AdminClick(s)
        \/ BackClick(s)
        \/ Delete(s)
        \/ Add(s)
        \/ SampleConvert(s)
        \/ SampleRevise(s)
        \/ Clear(s)

SpecAdmin == Init /\ [][NextAdmin]_vars

\* Two sessions of one process: login, logout, pages and administration.
NextShared ==
    \E s \in Sessions :
        \/ Login(s)
        \/ LogoutClick(s)
        \/ AdminClick(s)
        \/ BackClick(s)
        \/ Delete(s)
        \/ Add(s)

SpecShared == Init /\ [][NextShared]_vars

(***************************************************************************)
(* The credential store called directly (get, add, remove, verify of the   *)
(* storage layer, with any arguments).  Here shown[s] holds the last call  *)
(* and what it returned.                                                   *)
(***************************************************************************)
StoreUsernames == {"admin", "u1", "u2"}
StorePasswords == {<<>>, <<"x">>, <<"1">>}

\* The credential check: username known and password digest equal.
verify(ss, username, password) ==
    /\ Has(get_users(ss), username)
    /\ check_password(get_users(ss), username, password)

StoreAdd(s, username, name, password, role) ==
    /\ session_state' = [session_state EXCEPT
            ![s] = add_user(session_state[s], username, name, password, role)]
    /\ shown' = [shown EXCEPT
            ![s] = <<[call |-> "add", username |-> username,
                      password |-> password]>>]
    /\ UNCHANGED <<secrets, applied, in_flight>>

StoreRemove(s, username) ==
    /\ session_state' = [session_state EXCEPT
            ![s] = delete_user(session_state[s], username)]
    /\ shown' = [shown EXCEPT
            ![s] = <<[call |-> "remove", username |-> username]>>]
    /\ UNCHANGED <<secrets, applied, in_flight>>

StoreVerify(s, username, password) ==
    /\ session_state' = [session_state EXCEPT
            ![s] = init_users(session_state[s])]
    /\ shown' = [shown EXCEPT
            ![s] = <<[call |-> "verify", username |-> username,
                      returned |-> verify(session_state[s], username, password)]>>]
    /\ UNCHANGED <<secrets, applied, in_flight>>

NextStore ==
    \E s \in {MainSession} :
        \/ \E u \in StoreUsernames, p \in StorePasswords, r \in Roles :
                StoreAdd(s, u, "Staff", p, r)
        \/ \E u \in StoreUsernames : StoreRemove(s, u)
        \/ \E u \in StoreUsernames, p \in StorePasswords : StoreVerify(s, u, p)

SpecStore == Init /\ [][NextStore]_vars

(***************************************************************************)
(* Text extraction from an uploaded file (src/word_reader.py).  A plain    *)
(* text file is a sequence of bytes and decodes to a sequence of code      *)
(* points; a structured document is either not a valid container or a      *)
(* sequence of paragraphs.  The decoders follow the codecs on the bytes of *)
(* the model: ASCII, the UTF-8 two-byte form, and for the legacy encodings *)
(* the single bytes, the half-width katakana and the row of lead byte 0x82.*)
(***************************************************************************)
MaxBytes == 3       \* longest plain-text file, in bytes
MaxParas == 3       \* most paragraphs of a structured document

Bytes == {32, 97, 130, 160, 169, 195}

Decoded(text) == [ok |-> TRUE, text |-> text]
Undecodable == [ok |-> FALSE, text |-> <<>>]
Then(c, rest) == IF rest.ok THEN Decoded(<<c>> \o rest.text) ELSE rest

\* bytes.decode('utf-8'), from position i.
RECURSIVE utf8_from(_, _)
utf8_from(b, i) ==
    IF i > Len(b) THEN Decoded(<<>>)
    ELSE IF b[i] < 128 THEN Then(b[i], utf8_from(b, i + 1))
    ELSE IF /\ b[i] >= 194 /\ b[i] <= 223 /\ i + 1 <= Len(b)
            /\ b[i + 1] >= 128 /\ b[i + 1] <= 191
    THEN Then((b[i] % 32) * 64 + (b[i + 1] % 64), utf8_from(b, i + 2))
    ELSE Undecodable

decode_utf8(b) == utf8_from(b, 1)

NoChar == 0 - 1

\* The code point of a single byte in shift_jis / cp932, or NoChar.
legacy_single(byte, cp932) ==
    IF byte < 128 THEN byte
    ELSE IF byte >= 161 /\ byte <= 223 THEN 65377 + (byte - 161)
    ELSE IF cp932 /\ byte = 160 THEN 63728
    ELSE NoChar

\* The code point of a double-byte character, or NoChar.
legacy_double(lead, trail) ==
    IF lead # 130 THEN NoChar
    ELSE CASE trail = 97 -> 65314
           [] trail = 130 -> 65346
           [] trail = 160 -> 12354
           [] trail = 169 -> 12363
           [] trail = 195 -> 12389
           [] OTHER -> NoChar

\* bytes.decode('shift_jis') / bytes.decode('cp932', errors), from position
\* i; with errors = 'ignore' an undecodable byte is dropped.
RECURSIVE legacy_from(_, _, _, _)
legacy_from(b, i, cp932, ignore) ==
    IF i > Len(b) THEN Decoded(<<>>)
    ELSE IF legacy_single(b[i], cp932) # NoChar
    THEN Then(legacy_single(b[i], cp932), legacy_from(b, i + 1, cp932, ignore))
    ELSE IF i + 1 <= Len(b) /\ legacy_double(b[i], b[i + 1]) # NoChar
    THEN Then(legacy_double(b[i], b[i + 1]),
              legacy_from(b, i + 2, cp932, ignore))
    ELSE IF ignore THEN legacy_from(b, i + 1, cp932, ignore)
    ELSE Undecodable

decode_shift_jis(b) == legacy_from(b, 1, FALSE, FALSE)
decode_cp932_ignore(b) == legacy_from(b, 1, TRUE, TRUE)

Returned(text) == [raised |-> FALSE, text |-> text, error |-> None]
Raised(error) == [raised |-> TRUE, text |-> None, error |-> error]

\* A decoding that tries the legacy encoding before UTF-8.
decode_txt_legacy_first(file_bytes) ==
    IF decode_shift_jis(file_bytes).ok
    THEN Returned(decode_shift_jis(file_bytes).text)
    ELSE IF decode_utf8(file_bytes).ok
    THEN Returned(decode_utf8(file_bytes).text)
    ELSE Returned(decode_cp932_ignore(file_bytes).text)

\* extract_text_only, file_type "txt": utf-8, else shift_jis, else cp932
\* with errors = 'ignore'.
decode_txt(file_bytes) ==
    IF decode_utf8(file_bytes).ok
    THEN Returned(decode_utf8(file_bytes).text)
    ELSE IF decode_shift_jis(file_bytes).ok
    THEN Returned(decode_shift_jis(file_bytes).text)
    ELSE Returned(decode_cp932_ignore(file_bytes).text)

\* '\n\n'.join(text_parts)
RECURSIVE join(_)
join(text_parts) ==
    IF text_parts = <<>> THEN <<>>
    ELSE IF Len(text_parts) = 1 THEN text_parts[1]
    ELSE text_parts[1] \o <<"\n", "\n">> \o join(Tail(text_parts))

\* A paragraph loop that keeps the blank paragraphs.
RECURSIVE text_parts_of_keeping_blank(_)
text_parts_of_keeping_blank(paragraphs) ==
    IF paragraphs = <<>> THEN <<>>
    ELSE <<strip(Head(paragraphs))>>
            \o text_parts_of_keeping_blank(Tail(paragraphs))

\* The loop over doc.paragraphs: the stripped non-empty texts, in order.
RECURSIVE text_parts_of(_)
text_parts_of(paragraphs) ==
    IF paragraphs = <<>> THEN <<>>
    ELSE IF strip(Head(paragraphs)) # <<>>
    THEN <<strip(Head(paragraphs))>> \o text_parts_of(Tail(paragraphs))
    ELSE text_parts_of(Tail(paragraphs))

\* Document(io.BytesIO(file_bytes)): raises unless the bytes are a container.
Document(file_bytes) ==
    IF file_bytes.container THEN Returned(file_bytes.paragraphs)
    ELSE Raised("PackageNotFoundError")

\* extract_text_only, file_type "docx".
docx_text(file_bytes) ==
    IF Document(file_bytes).raised THEN Document(file_bytes)
    ELSE Returned(join(text_parts_of(Document(file_bytes).text)))

extract_text_only(file_bytes, file_type) ==
    IF file_type = "txt" THEN decode_txt(file_bytes) ELSE docx_text(file_bytes)

\* markdown_tab / qa_tab: the type the handler takes an upload to have.
file_type_of(uploaded_file) ==
    IF uploaded_file.ext = "txt" THEN "txt" ELSE "docx"

\* markdown_tab / qa_tab: the run that follows the choice of a file in the
\* uploader.  The extraction is called outside any try, so what it raises
\* ends the run as an uncaught exception of the script.
upload_run(ss, kind, uploaded_file) ==
    LET extracted ==
            extract_text_only(uploaded_file.content, file_type_of(uploaded_file))
    IN  IF extracted.raised
        THEN Run(ss, <<MsgWith("uncaught_exception", "script_aborted",
                               extracted.error)>>)
        ELSE Run(ss, NoMessages)

\* Files explored.
RECURSIVE SeqsUpTo(_, _)
SeqsUpTo(S, n) ==
    IF n = 0 THEN {<<>>}
    ELSE SeqsUpTo(S, n - 1)
            \cup {Append(q, x) : q \in SeqsUpTo(S, n - 1), x \in S}

ByteSeqs == SeqsUpTo(Bytes, MaxBytes)
ParagraphTexts == {<<>>, <<" ">>, <<"a">>, <<" ", "d", " ">>}
NotAContainer == [container |-> FALSE, paragraphs |-> <<>>]
Documents ==
    {NotAContainer}
        \cup {[container |-> TRUE, paragraphs |-> ps] :
                ps \in SeqsUpTo(ParagraphTexts, MaxParas)}
UploadedFiles ==
    {[ext |-> "txt", content |-> b] : b \in ByteSeqs}
        \cup {[ext |-> "docx", content |-> d] : d \in Documents}

UploadFile(s, kind, uploaded_file) ==
    /\ TabsVisible(session_state[s])
    /\ Apply(s, upload_run(session_state[s], kind, uploaded_file))

\* Uploads of the workflow: a text file in each encoding, a document and a
\* file named .docx that is no container.
SampleUploads ==
    {[ext |-> "txt", content |-> <<97>>],
     [ext |-> "txt", content |-> <<130, 160>>],
     [ext |-> "txt", content |-> <<130>>],
     [ext |-> "docx", content |-> NotAContainer],
     [ext |-> "docx",
      content |-> [container |-> TRUE, paragraphs |-> <<<<"a">>, <<>>>>]]}

Upload(s) == \E k \in Kinds, f \in SampleUploads : UploadFile(s, k, f)

\* The workflow of one session with uploads.
NextUpload ==
    \E s \in {MainSession} :
        \/ Login(s)
        \/ LogoutClick(s)
        \/ Convert(s)
        \/ SampleRevise(s)
        \/ Clear(s)
        \/ Upload(s)

SpecUpload == Init /\ [][NextUpload]_vars

\* extract_text_only called directly on any file: shown[s] holds the call,
\* and what it returned once it has returned.
ExtractCalled(uploaded_file) ==
    [call |-> "extract_text_only", file |-> uploaded_file]
ExtractReturned(uploaded_file) ==
    [call |-> "extract_text_only", file |-> uploaded_file,
     returned |-> extract_text_only(uploaded_file.content,
                                    file_type_of(uploaded_file))]

InitExtract ==
    /\ secrets \in SecretsChoices
    /\ session_state = [s \in Sessions |-> EmptyDict]
    /\ \E f \in UploadedFiles :
        shown = [s \in Sessions |->
                    IF s = MainSession THEN <<ExtractCalled(f)>> ELSE NoMessages]
    /\ applied = [s \in Sessions |-> NoneApplied]
    /\ in_flight = [s \in Sessions |-> {}]

ExtractReturn(s) ==
    /\ shown[s] # NoMessages
    /\ DOMAIN shown[s][1] = {"call", "file"}
    /\ shown' = [shown EXCEPT ![s] = <<ExtractReturned(shown[s][1].file)>>]
    /\ UNCHANGED <<session_state, secrets, applied, in_flight>>

NextExtract == \E s \in Sessions : ExtractReturn(s)

SpecExtract == InitExtract /\ [][NextExtract]_vars

(***************************************************************************)
(* One invocation of a gateway function (src/converter.py), step by step:  *)
(* the client is built, the prompt template is loaded (convert only), one  *)
(* request is sent, and whatever is raised on the way is caught and        *)
(* returned as a failed result.  An invocation yields the result and the   *)
(* requests it sent.                                                       *)
(***************************************************************************)
GatewayOps == {"convert", "proofread", "revise"}

PromptPath(kind) ==
    IF kind = "markdown" THEN "prompts/conversion_prompt.txt"
    ELSE "prompts/qa_prompt.txt"

\* load_conversion_prompt / load_qa_prompt: the file's text, "" if absent.
load_prompt(files, kind) ==
    IF Has(files, PromptPath(kind)) THEN files[PromptPath(kind)] ELSE ""

\* The prompt rules of a request: loaded for a convert, built in otherwise.
rules_of(op, kind, files) ==
    IF op = "convert" THEN load_prompt(files, kind) ELSE "builtin"

\* client.messages.create(...): the request sent.
Request(op, kind, rules, text, revision_request) ==
    [op |-> op, kind |-> kind, rules |-> rules, text |-> text,
     revision_request |-> revision_request, max_tokens |-> 8192]

PayloadField(op, kind) == IF op = "proofread" THEN "report" ELSE PayloadKey(kind)

GatewayOk(op, kind, payload, issues) ==
    [x \in {"success", PayloadField(op, kind), "error"}
            \cup (IF op = "proofread" THEN {"issues_count"} ELSE {}) |->
        CASE x = "success" -> TRUE
          [] x = "error" -> None
          [] x = "issues_count" -> issues
          [] OTHER -> payload]

GatewayFailed(op, kind, error) ==
    [x \in {"success", PayloadField(op, kind), "error"}
            \cup (IF op = "proofread" THEN {"issues_count"} ELSE {}) |->
        CASE x = "success" -> FALSE
          [] x = "error" -> error
          [] x = "issues_count" -> 0
          [] OTHER -> None]

Invocation(result, requests) == [result |-> result, requests |-> requests]

\* A gateway that sends the request again after an error of the service.
gateway_call_retrying(op, kind, text, revision_request, files, outcome) ==
    LET request ==
            Request(op, kind, rules_of(op, kind, files), text, revision_request)
    IN  CASE outcome.at = "client" ->
                Invocation(GatewayFailed(op, kind, outcome.error), <<>>)
          [] outcome.at = "service" ->
                Invocation(GatewayFailed(op, kind, outcome.error),
                           <<request, request>>)
          [] outcome.at = "content" ->
                Invocation(GatewayFailed(op, kind, outcome.error), <<request>>)
          [] OTHER ->
                Invocation(GatewayOk(op, kind, outcome.text, outcome.issues),
                           <<request>>)

\* The body of each gateway function: try ... except Exception.
gateway_call(op, kind, text, revision_request, files, outcome) ==
    LET request ==
            Request(op, kind, rules_of(op, kind, files), text, revision_request)
    IN  CASE outcome.at = "client" ->
                Invocation(GatewayFailed(op, kind, outcome.error), <<>>)
          [] outcome.at = "service" ->
                Invocation(GatewayFailed(op, kind, outcome.error), <<request>>)
          [] outcome.at = "content" ->
                Invocation(GatewayFailed(op, kind, outcome.error), <<request>>)
          [] OTHER ->
                Invocation(GatewayOk(op, kind, outcome.text, outcome.issues),
                           <<request>>)

\* What can happen in an invocation: the client constructor raises, the
\* request raises, the reply has no content block, or the reply has a text.
\* The count of issues is what the patterns find in the text of a report.
GatewayOutcomes ==
    {[at |-> "client", error |-> "e1"]}
        \cup {[at |-> "service", error |-> e] : e \in ServiceErrors}
        \cup {[at |-> "content", error |-> "list index out of range"]}
        \cup {[at |-> "reply", text |-> p, issues |-> n] :
                p \in Payloads, n \in IssueCounts}

\* The prompt files of the deployment: any of the two may be absent.
PromptFiles ==
    {[p \in paths |-> "rules"] :
        paths \in SUBSET {PromptPath("markdown"), PromptPath("qa")}}

GatewayTexts == {<<"a">>, <<"d">>}

GatewayCalled(op, kind, text, files, outcome) ==
    [call |-> "gateway", op |-> op, kind |-> kind, text |-> text,
     files |-> files, outcome |-> outcome]

GatewayReturned(c) ==
    [call |-> "gateway", op |-> c.op, kind |-> c.kind, text |-> c.text,
     files |-> c.files, outcome |-> c.outcome,
     returned |-> gateway_call(c.op, c.kind, c.text,
                               IF c.op = "revise" THEN <<"d">> ELSE <<>>,
                               c.files, c.outcome)]

InitGateway ==
    /\ secrets \in SecretsChoices
    /\ session_state = [s \in Sessions |-> EmptyDict]
    /\ \E op \in GatewayOps, k \in Kinds, t \in GatewayTexts,
          files \in PromptFiles, outcome \in GatewayOutcomes :
        shown = [s \in Sessions |->
                    IF s = MainSession
                    THEN <<GatewayCalled(op, k, t, files, outcome)>>
                    ELSE NoMessages]
    /\ applied = [s \in Sessions |-> NoneApplied]
    /\ in_flight = [s \in Sessions |-> {}]

GatewayReturn(s) ==
    /\ shown[s] # NoMessages
    /\ DOMAIN shown[s][1]
        = {"call", "op", "kind", "text", "files", "outcome"}
    /\ shown' = [shown EXCEPT ![s] = <<GatewayReturned(shown[s][1])>>]
    /\ UNCHANGED <<session_state, secrets, applied, in_flight>>

NextGateway == \E s \in Sessions : GatewayReturn(s)

SpecGateway == InitGateway /\ [][NextGateway]_vars

(***************************************************************************)
(* converter.py, proofread_article / proofread_qa: the report is the text  *)
(* of the first content block of the reply, and the number of issues is    *)
(* counted in it with re.findall.  A report is a sequence of code points.  *)
(***************************************************************************)
MaxFragments == 4

\* Code points: U+25A0 (black square), U+6307 U+6458 (shiteki, "issue"),
\* U+6821 U+95B2 (kouetsu, "proofreading"), ":" and U+FF1A (fullwidth colon).
BlackSquare == 9632
Shi == 25351
Teki == 25688
Kou == 26657
Etsu == 38322
Colons == {58, 65306}

\* \s and \d of a str pattern: the whitespace and the decimal digits of the
\* code points used here (ASCII and fullwidth forms).
Whitespace == {9, 10, 11, 12, 13, 32, 12288}
Digits == (48..57) \cup (65296..65305)

PrimaryMarker == "primary"
LooseMarker == "loose"

\* The first position at or after i whose code point is outside the class.
RECURSIVE skip(_, _, _)
skip(text, i, class) ==
    IF i <= Len(text) /\ text[i] \in class THEN skip(text, i + 1, class)
    ELSE i

\* The position after the match of the pattern that begins at i, 0 if none.
\* Primary is U+25A0 \s* U+6307 U+6458 \d+ and loose is U+6821 U+95B2 [::].
match(pattern, text, i) ==
    IF pattern = PrimaryMarker
    THEN IF i <= Len(text) /\ text[i] = BlackSquare
         THEN LET j == skip(text, i + 1, Whitespace)
              IN  IF /\ j + 2 <= Len(text)
                     /\ text[j] = Shi
                     /\ text[j + 1] = Teki
                     /\ text[j + 2] \in Digits
                  THEN skip(text, j + 2, Digits)
                  ELSE 0
         ELSE 0
    ELSE IF /\ i + 2 <= Len(text)
            /\ text[i] = Kou
            /\ text[i + 1] = Etsu
            /\ text[i + 2] \in Colons
         THEN i + 3
         ELSE 0

\* len(re.findall(pattern, text[i:])): a left-to-right scan that resumes
\* after the end of each match.
RECURSIVE findall_from(_, _, _)
findall_from(pattern, text, i) ==
    IF i > Len(text) THEN 0
    ELSE LET end == match(pattern, text, i)
         IN  IF end = 0 THEN findall_from(pattern, text, i + 1)
             ELSE 1 + findall_from(pattern, text, end)

findall(pattern, text) == findall_from(pattern, text, 1)

\* A count of the primary marker alone.
issues_count_without_fallback(report) == findall(PrimaryMarker, report)

issues_count(report) ==
    IF findall(PrimaryMarker, report) = 0 THEN findall(LooseMarker, report)
    ELSE findall(PrimaryMarker, report)

\* proofread_article / proofread_qa from the reply on: the reply has a text,
\* or the call or the access to its first content block raised.
proofread_counted(kind, outcome) ==
    IF outcome.at = "reply"
    THEN [success |-> TRUE, report |-> outcome.text,
          issues_count |-> issues_count(outcome.text), error |-> None]
    ELSE [success |-> FALSE, report |-> None, issues_count |-> 0,
          error |-> outcome.error]

\* Pieces of reports: the markers whole and in parts, and other text.
Fragments ==
    {<<BlackSquare, Shi, Teki, 49>>, <<BlackSquare>>, <<32>>, <<Shi, Teki>>,
     <<50>>, <<Kou, Etsu, 58>>, <<Kou, Etsu, 65306>>, <<Kou, Etsu>>, <<120>>}

RECURSIVE concat(_)
concat(parts) == IF parts = <<>> THEN <<>> ELSE Head(parts) \o concat(Tail(parts))

ReportTexts == {concat(parts) : parts \in SeqsUpTo(Fragments, MaxFragments)}

ProofreadOutcomes ==
    {[at |-> "service", error |-> e] : e \in ServiceErrors}
        \cup {[at |-> "content", error |-> "list index out of range"]}
        \cup {[at |-> "reply", text |-> r] : r \in ReportTexts}

ProofreadCalled(kind, outcome) ==
    [call |-> "proofread", kind |-> kind, outcome |-> outcome]

ProofreadReturned(c) ==
    [call |-> "proofread", kind |-> c.kind, outcome |-> c.outcome,
     returned |-> proofread_counted(c.kind, c.outcome)]

InitProofread ==
    /\ secrets \in SecretsChoices
    /\ session_state = [s \in Sessions |-> EmptyDict]
    /\ \E k \in Kinds, outcome \in ProofreadOutcomes :
        shown = [s \in Sessions |->
                    IF s = MainSession THEN <<ProofreadCalled(k, outcome)>>
                    ELSE NoMessages]
    /\ applied = [s \in Sessions |-> NoneApplied]
    /\ in_flight = [s \in Sessions |-> {}]

ProofreadReplyReturn(s) ==
    /\ shown[s] # NoMessages
    /\ DOMAIN shown[s][1] = {"call", "kind", "outcome"}
    /\ shown' = [shown EXCEPT ![s] = <<ProofreadReturned(shown[s][1])>>]
    /\ UNCHANGED <<session_state, secrets, applied, in_flight>>

NextProofread == \E s \in Sessions : ProofreadReplyReturn(s)

SpecProofread == InitProofread /\ [][NextProofread]_vars

(***************************************************************************)
(* The runs of the convert and revise clicks step by step: a run issues a  *)
(* gateway call inside st.spinner and is blocked until the call returns;   *)
(* it then continues to its next call or to its end.  The script runs of a *)
(* session are executed one at a time, so a click is served only when no   *)
(* run of the session is blocked.  Sessions run concurrently.              *)
(***************************************************************************)
ConvertCall(kind, article_text, do_proofread) ==
    [op |-> "convert", kind |-> kind, article_text |-> article_text,
     do_proofread |-> do_proofread]
ProofreadCall(kind, payload) ==
    [op |-> "proofread", kind |-> kind, payload |-> payload]
ReviseCall(kind, payload, revision_request) ==
    [op |-> "revise", kind |-> kind, payload |-> payload,
     revision_request |-> revision_request]

Spinner(text) == <<Msg("spinner", text)>>

\* The session's script runner is idle: no run is blocked in a call.
RunnerIdle(s) == in_flight[s] = {}

\* A convert run that calls the proofread whatever the convert returned.
calls_after_convert_unconditional(call, result) ==
    IF call.do_proofread
    THEN {ProofreadCall(call.kind, result[PayloadKey(call.kind)])}
    ELSE {}

\* The call a convert run issues after its convert call has returned.
calls_after_convert(call, result) ==
    IF result["success"] /\ call.do_proofread
    THEN {ProofreadCall(call.kind, result[PayloadKey(call.kind)])}
    ELSE {}

Step(s, run, counts, calls) ==
    /\ session_state' = [session_state EXCEPT ![s] = run.ss]
    /\ shown' = [shown EXCEPT ![s] = run.shown]
    /\ applied' = [applied EXCEPT ![s] = counts]
    /\ in_flight' = [in_flight EXCEPT ![s] = calls]
    /\ UNCHANGED secrets

\* Convert click up to the gateway call (or to the end, for empty input).
ConvertBegin(s, kind, article_text, do_proofread) ==
    LET ss0 == Put(session_state[s], HistoryKey(kind), <<>>)
    IN  /\ TabsVisible(session_state[s])
        /\ RunnerIdle(s)
        /\ IF strip(article_text) = <<>>
           THEN Step(s, Run(ss0, <<Msg("warning", "empty_input")>>),
                     applied[s], {})
           ELSE Step(s, Run(ss0, Spinner("converting")), applied[s],
                     {ConvertCall(kind, article_text, do_proofread)})

\* The convert call returns: the result is stored or the error shown, and
\* the proofread call is issued if there is one.
ConvertReturn(s, call, reply) ==
    LET ss == session_state[s]
        result == convert(call.kind, call.article_text, reply)
        next_calls == calls_after_convert(call, result)
    IN  /\ call \in in_flight[s]
        /\ call.op = "convert"
        /\ IF result["success"]
           THEN Step(s,
                     Run(convert_stored(ss, call.kind, call.article_text, result),
                         <<Msg("success", "convert_done")>>
                            \o (IF next_calls = {} THEN <<>>
                                ELSE Spinner("proofreading"))),
                     [applied[s] EXCEPT ![call.kind] = 0],
                     (in_flight[s] \ {call}) \cup next_calls)
           ELSE Step(s, convert_failed(ss, call.kind, result), applied[s],
                     (in_flight[s] \ {call}) \cup next_calls)

\* The proofread call returns and the convert run ends.
ProofreadReturn(s, call, proofread_reply) ==
    /\ call \in in_flight[s]
    /\ call.op = "proofread"
    /\ Step(s,
            convert_proofread(session_state[s], call.kind,
                              ConversionOk(call.kind, call.payload), TRUE,
                              proofread_reply),
            applied[s], in_flight[s] \ {call})

\* Revise click up to the gateway call (or to the end, for an empty request).
ReviseBegin(s, kind, revision_request) ==
    LET ss == session_state[s]
    IN  /\ TabsVisible(ss)
        /\ Has(ss, ResultKey(kind))
        /\ RunnerIdle(s)
        /\ StoredRevisions(ss) < MaxHist
        /\ applied[s]["markdown"] + applied[s]["qa"] < MaxHist
        /\ IF strip(revision_request) = <<>>
           THEN Step(s, revise_click(ss, kind, revision_request, NoCall),
                     applied[s], {})
           ELSE Step(s, Run(ss, Spinner("revising")), applied[s],
                     {ReviseCall(kind, ss[ResultKey(kind)], revision_request)})

\* The revise call returns and the revise run ends.
ReviseReturn(s, call, reply) ==
    LET ss == session_state[s]
    IN  /\ call \in in_flight[s]
        /\ call.op = "revise"
        /\ Step(s, revise_click(ss, call.kind, call.revision_request, reply),
                IF ReviseSucceeds(ss, call.kind, call.revision_request, reply)
                THEN [applied[s] EXCEPT ![call.kind] = @ + 1]
                ELSE applied[s],
                in_flight[s] \ {call})

CallTexts == {<<>>, <<"a">>}
CallRequests == {<<" ">>, <<"d">>}
CallReplies == {[ok |-> TRUE, text |-> "p1"], [ok |-> FALSE, error |-> "e1"]}
CallProofreadReplies ==
    {[ok |-> TRUE, issues |-> 1], [ok |-> FALSE, error |-> "e1"]}

SampleLogin(s) == LoginSubmit(s, "admin", AdminDefaultPassword)

\* The steps of a session with any input.
CallSteps(s) ==
    \/ SampleLogin(s)
    \/ \E k \in Kinds, t \in CallTexts, dp \in BOOLEAN :
            ConvertBegin(s, k, t, dp)
    \/ \E c \in in_flight[s], r \in CallReplies : ConvertReturn(s, c, r)
    \/ \E c \in in_flight[s], pr \in CallProofreadReplies :
            ProofreadReturn(s, c, pr)
    \/ \E k \in Kinds, q \in CallRequests : ReviseBegin(s, k, q)
    \/ \E c \in in_flight[s], r \in CallReplies : ReviseReturn(s, c, r)

\* The steps of a session that converts one manuscript again and again.
SampleCallSteps(s) ==
    \/ SampleLogin(s)
    \/ ConvertBegin(s, "markdown", <<"a">>, TRUE)
    \/ \E c \in in_flight[s] : ConvertReturn(s, c, [ok |-> TRUE, text |-> "p1"])
    \/ \E c \in in_flight[s] :
            ProofreadReturn(s, c, [ok |-> TRUE, issues |-> 0])

\* One session with any input next to a session converting concurrently.
NextCalls ==
    \/ \E s \in {MainSession} : CallSteps(s)
    \/ \E s \in Sessions \ {MainSession} : SampleCallSteps(s)

SpecCalls == Init /\ [][NextCalls]_vars

(***************************************************************************)
(* Properties of the conversion workflow (checked under Spec).             *)
(***************************************************************************)
Result(ss, kind) == Get(ss, ResultKey(kind), None)
History(ss, kind) == Get(ss, HistoryKey(kind), <<>>)

\* C1: a convert click whose gateway call returns success = false leaves the
\* stored ConversionResult of that sub-workflow as it was (absent stays
\* absent, a stored text stays the same text), and the message shown carries
\* the error string the gateway returned.
FailedConvertKeepsResult ==
    \A s \in Sessions, k \in Kinds, t \in ArticleTexts, dp \in BOOLEAN,
       r \in ServiceReplies, pr \in ProofreadReplies :
        LET ss == session_state[s]
            result == convert(k, t, r)
            run == convert_click(ss, k, t, dp, r, pr)
        IN  (TabsVisible(ss) /\ strip(t) # <<>> /\ ~result["success"]) =>
                /\ Has(run.ss, ResultKey(k)) = Has(ss, ResultKey(k))
                /\ Result(run.ss, k) = Result(ss, k)
                /\ run.shown
                    = <<MsgWith("error", "convert_error", result["error"])>>

\* C1 witness: a convert error of the gateway is on screen while both
\* sub-workflows hold a result.
FailedConvertWithResultsStored ==
    \E s \in Sessions, e \in ServiceErrors :
        /\ shown[s] = <<MsgWith("error", "convert_error", e)>>
        /\ Has(session_state[s], "markdown_result")
        /\ Has(session_state[s], "qa_result")

\* C2: every successful revise appends exactly the submitted request to the
\* end of the sub-workflow's RevisionHistory and stores the gateway payload
\* as the result, so the history of a stored result holds, in order, exactly
\* the k requests applied since the conversion that produced its base.
RevisionsSinceConversionRecorded ==
    /\ \A s \in Sessions, k \in Kinds, q \in RevisionRequests,
          r \in ServiceReplies :
            LET ss == session_state[s]
                run == revise_click(ss, k, q, r)
            IN  (TabsVisible(ss) /\ Has(ss, ResultKey(k))
                    /\ ReviseSucceeds(ss, k, q, r)) =>
                    /\ History(run.ss, k) = Append(History(ss, k), q)
                    /\ Result(run.ss, k) = r.text
    /\ \A s \in Sessions, k \in Kinds :
            Has(session_state[s], ResultKey(k)) =>
                Len(History(session_state[s], k)) = applied[s][k]

\* C3: after a successful revise no ProofreadResult is stored for that
\* sub-workflow.
ReviseClearsProofreadReport ==
    \A s \in Sessions, k \in Kinds, q \in RevisionRequests,
       r \in ServiceReplies :
        LET ss == session_state[s]
            run == revise_click(ss, k, q, r)
        IN  (TabsVisible(ss) /\ Has(ss, ResultKey(k))
                /\ ReviseSucceeds(ss, k, q, r)) =>
                ~Has(run.ss, ReportKey(k))

\* C4: after any successful convert the history is empty and a stored
\* proofread report, if any, was produced from the result of this
\* conversion, whatever the proofread option and the proofread outcome.
ConvertInvalidatesHistoryAndReport ==
    \A s \in Sessions, k \in Kinds, t \in ArticleTexts, dp \in BOOLEAN,
       r \in ServiceReplies, pr \in ProofreadReplies :
        LET ss == session_state[s]
            run == convert_click(ss, k, t, dp, r, pr)
        IN  (TabsVisible(ss) /\ ConvertSucceeds(k, t, r)) =>
                /\ Has(run.ss, HistoryKey(k))
                /\ History(run.ss, k) = <<>>
                /\ Has(run.ss, ReportKey(k)) =>
                        run.ss[ReportKey(k)] = Report(r.text)

\* C5: clearing a sub-workflow's workspace leaves it with no
\* ConversionResult, no ProofreadResult and no RevisionHistory, and the
\* generation counter exactly one greater (an absent counter counts as 0).
ClearRemovesArtifactsAndCounts ==
    \A s \in Sessions, k \in Kinds :
        LET ss == session_state[s]
            run == clear_click(ss)
        IN  TabsVisible(ss) =>
                /\ ~Has(run.ss, ResultKey(k))
                /\ ~Has(run.ss, ReportKey(k))
                /\ ~Has(run.ss, HistoryKey(k))
                /\ Get(run.ss, "widget_key", 0) = Get(ss, "widget_key", 0) + 1

\* C5 witness: the workspace has been cleared and holds no artifact.
WorkspaceCleared ==
    \E s \in Sessions :
        /\ Get(session_state[s], "widget_key", 0) = 1
        /\ shown[s] = NoMessages
        /\ \A k \in Kinds :
            /\ ~Has(session_state[s], ResultKey(k))
            /\ ~Has(session_state[s], ReportKey(k))
            /\ ~Has(session_state[s], HistoryKey(k))

(***************************************************************************)
(* Properties of the credential store and of the session life cycle.       *)
(***************************************************************************)

\* C6 (SpecStore): remove("admin") never removes the admin record: in every
\* store state reached by add and remove calls that contains "admin", the
\* same record is there after one call and after a repeated call.
RemoveAdminKeepsAdmin ==
    \A s \in Sessions :
        LET ss == session_state[s]
            once == delete_user(ss, "admin")
            twice == delete_user(once, "admin")
        IN  Has(get_users(ss), "admin") =>
                /\ Has(get_users(once), "admin")
                /\ get_users(once)["admin"] = get_users(ss)["admin"]
                /\ Has(get_users(twice), "admin")
                /\ get_users(twice)["admin"] = get_users(ss)["admin"]

\* C6 witness: remove("admin") was the last call on a store that holds the
\* admin record next to another user's.
RemoveAdminCalled ==
    \E s \in Sessions :
        /\ shown[s] = <<[call |-> "remove", username |-> "admin"]>>
        /\ Has(get_users(session_state[s]), "admin")
        /\ Has(get_users(session_state[s]), "u1")

\* C7 (SpecStore): immediately after add(u, n, p, r) the credential check of
\* (u, p) succeeds and the check of (u, p + "x") fails.
AddThenVerify ==
    \A s \in Sessions, u \in StoreUsernames, p \in StorePasswords,
       r \in Roles :
        LET after == add_user(session_state[s], u, "Staff", p, r)
        IN  /\ verify(after, u, p)
            /\ ~verify(after, u, Append(p, "x"))

\* C7 witness: add("u2", _, "x", _) was the last call, on a store that
\* already held u1, and ("u2", "x") passes the check.
AddCalled ==
    \E s \in Sessions :
        /\ shown[s] = <<[call |-> "add", username |-> "u2",
                         password |-> <<"x">>]>>
        /\ Has(get_users(session_state[s]), "u1")
        /\ verify(session_state[s], "u2", <<"x">>)

\* C8 (SpecAdmin): a session becomes authenticated only by a login submit
\* whose username is a key of the store and whose password digest equals the
\* stored hash, and then shows the Main page; any other submit leaves the
\* session logged out and the store as it was.
LoginOnlyByVerifiedSubmit ==
    [][\A s \in Sessions :
        LET ss == session_state[s]
            users == get_users(ss)
            Accepts(u, p) ==
                Has(users, u) /\ hash_password(p) = users[u].password
        IN  /\ (~Authenticated(ss) /\ Authenticated(session_state'[s])) =>
                \E u \in LoginNames, p \in LoginPasswords :
                    /\ Accepts(u, p)
                    /\ LoginSubmit(s, u, p)
                    /\ MainVisible(session_state'[s])
                    /\ Page(session_state'[s]) = "main"
            /\ \A u \in LoginNames, p \in LoginPasswords :
                (LoginSubmit(s, u, p) /\ ~Accepts(u, p)) =>
                    /\ ~Authenticated(session_state'[s])
                    /\ get_users(session_state'[s]) = users
      ]_vars

\* C8 witness: the configured reporter u1 is logged in on the Main page.
ReporterLoggedIn ==
    \E s \in Sessions :
        /\ Authenticated(session_state[s])
        /\ session_state[s]["username"] = "u1"
        /\ MainVisible(session_state[s])
        /\ shown[s] = NoMessages

\* C9 (SpecAdmin): logout removes every piece of session data and leaves
\* the contents of the credential store as they were.
LogoutKeepsOnlyCredentialStore ==
    \A s \in Sessions :
        LET ss == session_state[s]
            run == logout_click(ss)
        IN  MainVisible(ss) =>
                /\ (DOMAIN run.ss) \subseteq {"users_db"}
                /\ ~Authenticated(run.ss)
                /\ Has(run.ss, "users_db") = Has(ss, "users_db")
                /\ get_users(run.ss) = get_users(ss)

\* C9 witness: a logged-out session whose store holds the user u2 added
\* during the session.
LoggedOutAfterAdding ==
    \E s \in Sessions :
        /\ DOMAIN session_state[s] = {"users_db"}
        /\ Has(get_users(session_state[s]), "u2")
        /\ shown[s] = NoMessages

\* C10 (SpecShared): the credential store is shared process-wide: every
\* session sees the same table, so a user added or removed by an admin in
\* one session is seen, and can or cannot log in, in every other session.
CredentialStoreShared ==
    \A s1 \in Sessions, s2 \in Sessions :
        /\ get_users(session_state[s1]) = get_users(session_state[s2])
        /\ \A u \in LoginNames, p \in LoginPasswords :
            verify(session_state[s1], u, p) = verify(session_state[s2], u, p)

(***************************************************************************)
(* Properties of the conversion workflow, continued.                       *)
(***************************************************************************)
SameEntry(ss1, ss2, key) ==
    /\ Has(ss1, key) = Has(ss2, key)
    /\ Get(ss1, key, None) = Get(ss2, key, None)

\* C11: the RevisionHistory of a sub-workflow is append-only inside a
\* conversion cycle: a revise click leaves it unchanged or extends it by the
\* submitted request at the end, a convert click that produces a new base
\* conversion empties it, and a convert click that fails or is rejected for
\* empty input does not alter it.
HistoryAppendOnlyInCycle ==
    \A s \in Sessions, k \in Kinds :
        LET ss == session_state[s]
        IN  /\ \A t \in ArticleTexts, dp \in BOOLEAN :
                \A r \in ConvertReplies(t) :
                    \A pr \in ConvertProofreadReplies(t, dp, r) :
                        LET run == convert_click(ss, k, t, dp, r, pr)
                        IN  TabsVisible(ss) =>
                                History(run.ss, k)
                                    = IF ConvertSucceeds(k, t, r)
                                      THEN <<>>
                                      ELSE History(ss, k)
            /\ \A q \in RevisionRequests :
                \A r \in ReviseReplies(q) :
                    LET run == revise_click(ss, k, q, r)
                    IN  (TabsVisible(ss) /\ Has(ss, ResultKey(k))) =>
                            History(run.ss, k)
                                \in {History(ss, k), Append(History(ss, k), q)}

\* C12: a revise click whose gateway call returns success = false leaves the
\* stored result, the RevisionHistory and the proofread report of that
\* sub-workflow as they were, and shows the error the gateway returned.
FailedReviseKeepsArtifacts ==
    \A s \in Sessions, k \in Kinds, q \in RevisionRequests,
       r \in ServiceReplies :
        LET ss == session_state[s]
            revision_result == revise(k, Result(ss, k), q, r)
            run == revise_click(ss, k, q, r)
        IN  (TabsVisible(ss) /\ Has(ss, ResultKey(k)) /\ strip(q) # <<>>
                /\ ~revision_result["success"]) =>
                /\ SameEntry(run.ss, ss, ResultKey(k))
                /\ SameEntry(run.ss, ss, HistoryKey(k))
                /\ SameEntry(run.ss, ss, ReportKey(k))
                /\ run.shown
                    = <<MsgWith("error", "revise_error",
                                revision_result["error"])>>

\* C12 witness: a revise error of the gateway is on screen while the
\* sub-workflow holds a result, a recorded revision and a proofread report.
FailedReviseWithArtifactsStored ==
    \E s \in Sessions, k \in Kinds, e \in ServiceErrors :
        /\ shown[s] = <<MsgWith("error", "revise_error", e)>>
        /\ Has(session_state[s], ResultKey(k))
        /\ Has(session_state[s], ReportKey(k))
        /\ Len(History(session_state[s], k)) = 1

\* C13: when a convert succeeds with proofreading enabled and the proofread
\* call fails, the new ConversionResult is stored with an empty history and
\* the conversion is reported done; no report is written by this click (the
\* report entry is as it was before).
ProofreadFailureKeepsConversion ==
    \A s \in Sessions, k \in Kinds, t \in ArticleTexts,
       r \in ServiceReplies, pr \in ProofreadReplies :
        LET ss == session_state[s]
            run == convert_click(ss, k, t, TRUE, r, pr)
        IN  (TabsVisible(ss) /\ ConvertSucceeds(k, t, r) /\ ~pr.ok) =>
                /\ Has(run.ss, ResultKey(k))
                /\ Result(run.ss, k) = r.text
                /\ Has(run.ss, HistoryKey(k))
                /\ History(run.ss, k) = <<>>
                /\ SameEntry(run.ss, ss, ReportKey(k))
                /\ run.shown = <<Msg("success", "convert_done")>>

\* C13 witness: a conversion has just been reported done and its result is
\* stored without any proofread report.
ConvertedWithoutReport ==
    \E s \in Sessions, k \in Kinds :
        /\ shown[s] = <<Msg("success", "convert_done")>>
        /\ Result(session_state[s], k) = "p2"
        /\ History(session_state[s], k) = <<>>
        /\ ~Has(session_state[s], ReportKey(k))

\* C14 (SpecUpload): when an uploaded structured document is not a valid
\* container, the tab handler that called the extraction catches the error
\* and ends its run with an error message of its own, the error does not
\* leave the handler as an uncaught exception, and the session's stored
\* artifacts are unchanged.
MalformedDocumentCaught ==
    \A s \in Sessions, k \in Kinds, f \in SampleUploads :
        LET ss == session_state[s]
            run == upload_run(ss, k, f)
        IN  (TabsVisible(ss) /\ f.ext = "docx" /\ ~f.content.container) =>
                /\ run.ss = ss
                /\ Len(run.shown) = 1
                /\ run.shown[1].level = "error"

(***************************************************************************)
(* Properties of the text extraction (checked under SpecExtract).          *)
(***************************************************************************)
\* The extraction calls that have returned.
ExtractionsReturned ==
    {shown[s][1] : s \in {x \in Sessions :
        /\ shown[x] # NoMessages
        /\ {"call", "returned"} \subseteq DOMAIN shown[x][1]
        /\ shown[x][1].call = "extract_text_only"}}

\* str.encode('utf-8') of code points below 0x800.
RECURSIVE encode_utf8(_)
encode_utf8(text) ==
    IF text = <<>> THEN <<>>
    ELSE (IF Head(text) < 128 THEN <<Head(text)>>
          ELSE <<192 + (Head(text) \div 64), 128 + (Head(text) % 64)>>)
            \o encode_utf8(Tail(text))

\* The bytes of b at the positions kept, in order.
RECURSIVE KeptBytes(_, _, _)
KeptBytes(b, i, kept) ==
    IF i > Len(b) THEN <<>>
    ELSE (IF i \in kept THEN <<b[i]>> ELSE <<>>) \o KeptBytes(b, i + 1, kept)

\* C17: plain-text extraction never fails and follows the fallback chain:
\* bytes decodable as UTF-8 give exactly their UTF-8 decoding (which encodes
\* back to the bytes); bytes not valid UTF-8 but valid under the legacy
\* Japanese encoding give the legacy decoding; any other bytes give the lossy
\* decoding, which is the strict decoding of the bytes that are left when the
\* undecodable ones are dropped.
PlainTextFallbackChain ==
    \A c \in ExtractionsReturned :
        LET b == c.file.content
            r == c.returned
        IN  c.file.ext = "txt" =>
                /\ ~r.raised
                /\ decode_utf8(b).ok =>
                        /\ r.text = decode_utf8(b).text
                        /\ encode_utf8(r.text) = b
                /\ (~decode_utf8(b).ok /\ decode_shift_jis(b).ok) =>
                        r.text = decode_shift_jis(b).text
                /\ (~decode_utf8(b).ok /\ ~decode_shift_jis(b).ok) =>
                        /\ r.text = decode_cp932_ignore(b).text
                        /\ \E kept \in SUBSET (1..Len(b)) :
                            LET strict ==
                                    legacy_from(KeptBytes(b, 1, kept), 1,
                                                TRUE, FALSE)
                            IN  strict.ok /\ strict.text = r.text

\* C17 witness: the extraction of a text file holding the two bytes of a
\* hiragana A in the legacy encoding, which are not UTF-8, has returned
\* that character.
LegacyTextExtracted ==
    \E c \in ExtractionsReturned :
        /\ c.file = [ext |-> "txt", content |-> <<130, 160>>]
        /\ ~decode_utf8(c.file.content).ok
        /\ c.returned = Returned(<<12354>>)

\* text.split('\n\n')
RECURSIVE split_from(_, _, _)
split_from(text, i, segment) ==
    IF i > Len(text) THEN <<segment>>
    ELSE IF text[i] = "\n" /\ i + 1 <= Len(text) /\ text[i + 1] = "\n"
    THEN <<segment>> \o split_from(text, i + 2, <<>>)
    ELSE split_from(text, i + 1, Append(segment, text[i]))

split(text) == split_from(text, 1, <<>>)

NonBlank(text) == strip(text) # <<>>

\* C18: for a structured document with N paragraphs that are non-empty after
\* whitespace stripping, and any empty or whitespace-only paragraphs among
\* them, the extraction returns exactly those N stripped texts in original
\* order joined by a double line break, with no empty segment, and the empty
\* string when N = 0.
DocumentParagraphsJoined ==
    \A c \in ExtractionsReturned :
        LET ps == c.file.content.paragraphs
            kept == SelectSeq(ps, NonBlank)
            stripped == [i \in 1..Len(kept) |-> strip(kept[i])]
            r == c.returned
        IN  (c.file.ext = "docx" /\ c.file.content.container) =>
                /\ ~r.raised
                /\ IF Len(kept) = 0 THEN r.text = <<>>
                   ELSE /\ split(r.text) = stripped
                        /\ \A i \in 1..Len(split(r.text)) :
                                split(r.text)[i] # <<>>

\* C18 witness: the extraction of a document whose paragraphs are " d ", a
\* blank one and "a" has returned "d", a double line break, "a".
DocumentTextExtracted ==
    \E c \in ExtractionsReturned :
        /\ c.file.ext = "docx"
        /\ c.file.content.container
        /\ c.file.content.paragraphs = <<<<" ", "d", " ">>, <<" ">>, <<"a">>>>
        /\ c.returned = Returned(<<"d", "\n", "\n", "a">>)

(***************************************************************************)
(* Properties of the gateway (checked under SpecGateway).                  *)
(***************************************************************************)
\* The gateway invocations that have returned.
GatewayReturns ==
    {shown[s][1] : s \in {x \in Sessions :
        /\ shown[x] # NoMessages
        /\ {"call", "returned"} \subseteq DOMAIN shown[x][1]
        /\ shown[x][1].call = "gateway"}}

\* The reply of the service as the handlers' gateway functions take it.
reply_of(outcome) ==
    IF outcome.at = "reply"
    THEN [ok |-> TRUE, text |-> outcome.text, issues |-> outcome.issues]
    ELSE [ok |-> FALSE, error |-> outcome.error]

\* C15: when the prompt template of a workflow kind is absent, the convert
\* operation that needs it returns a failed ConversionResult (success =
\* false, error present) and sends no request to the generation service.
MissingTemplateFailsConvert ==
    \A c \in GatewayReturns :
        (c.op = "convert" /\ ~Has(c.files, PromptPath(c.kind))) =>
            /\ ~c.returned.result["success"]
            /\ c.returned.result["error"] # None
            /\ c.returned.requests = <<>>

\* C16: each gateway operation sends at most one request per invocation and
\* always returns a result: on an error of the client, the transport or the
\* service, success = false with the error message present and the payload
\* (or report) absent; on a reply, success = true with the payload equal to
\* the service's output and no error.  The results are those the handlers
\* are modelled to receive.
GatewayReturnsOneResult ==
    \A c \in GatewayReturns :
        LET res == c.returned.result
            payload == PayloadField(c.op, c.kind)
        IN  /\ Len(c.returned.requests) <= 1
            /\ {"success", "error", payload} \subseteq DOMAIN res
            /\ c.outcome.at # "reply" =>
                    /\ res["success"] = FALSE
                    /\ res["error"] = c.outcome.error
                    /\ res["error"] # None
                    /\ res[payload] = None
            /\ c.outcome.at = "reply" =>
                    /\ res["success"] = TRUE
                    /\ res[payload] = c.outcome.text
                    /\ res["error"] = None
                    /\ Len(c.returned.requests) = 1
            /\ c.op = "convert" =>
                    res = convert(c.kind, c.text, reply_of(c.outcome))
            /\ c.op = "revise" =>
                    res = revise(c.kind, c.text, <<"d">>, reply_of(c.outcome))
            /\ c.op = "proofread" =>
                    LET coarse == proofread(c.kind, c.text, reply_of(c.outcome))
                    IN  /\ res["success"] = coarse.success
                        /\ res["error"] = coarse.error
                        /\ res["issues_count"] = coarse.issues_count

\* C16 witness: a revise invocation whose request the service failed has
\* returned a failed result after one request.
ServiceErrorReturned ==
    \E c \in GatewayReturns :
        /\ c.op = "revise"
        /\ c.outcome = [at |-> "service", error |-> "e2"]
        /\ Len(c.returned.requests) = 1
        /\ c.returned.result["success"] = FALSE
        /\ c.returned.result["error"] = "e2"

(***************************************************************************)
(* Properties of the credential administration, continued.                 *)
(***************************************************************************)
\* C19 (SpecAdmin): at the storage layer add overwrites the record of a
\* username already present and touches no other record; the add form of
\* the admin page rejects such a username with the duplicate-username error
\* and rejects a submit with an empty field, both leaving the store as it was.
AddRejectsDuplicateAndEmpty ==
    \A s \in Sessions, u \in NewUsernames, n \in NewNames,
       p \in NewPasswords, r \in Roles :
        LET ss == session_state[s]
            users == get_users(ss)
            run == add_submit(ss, u, n, p, r)
            stored == get_users(add_user(ss, u, n, p, r))
        IN  AdminVisible(ss) =>
                /\ Has(users, u) =>
                        /\ stored[u] = UserRecord(n, hash_password(p), r)
                        /\ DOMAIN stored = DOMAIN users
                        /\ \A v \in (DOMAIN users) \ {u} : stored[v] = users[v]
                /\ (u # "" /\ n # "" /\ p # <<>> /\ Has(users, u)) =>
                        /\ run.shown = <<Msg("error", "duplicate_username")>>
                        /\ get_users(run.ss) = users
                /\ (u = "" \/ n = "" \/ p = <<>>) =>
                        /\ run.shown = <<Msg("error", "fill_all_fields")>>
                        /\ get_users(run.ss) = users

\* C19 witness: the admin page shows the duplicate-username error and the
\* store holds the user u2 added before.
DuplicateRejected ==
    \E s \in Sessions :
        /\ AdminVisible(session_state[s])
        /\ shown[s] = <<Msg("error", "duplicate_username")>>
        /\ Has(get_users(session_state[s]), "u2")

GenerationCounter(ss) == Get(ss, "widget_key", 0)

\* C21 (SpecAdmin): the generation counter of a session never decreases
\* across login, convert, revise, clear, page switches, administration,
\* logout and a new login, and it changes only by a clear click.
GenerationCounterMonotonic ==
    [][\A s \in Sessions :
        /\ GenerationCounter(session_state'[s])
                >= GenerationCounter(session_state[s])
        /\ GenerationCounter(session_state'[s])
                # GenerationCounter(session_state[s]) =>
                    \E k \in Kinds : ClearClick(s, k)
      ]_vars

\* C22 (Spec): the two sub-workflows are independent: a convert (with its
\* proofread), a revise or a clear taken in one sub-workflow leaves the
\* result, the report and the history of the other sub-workflow unchanged.
SubWorkflowsIndependent ==
    \A s \in Sessions, k \in Kinds, other \in Kinds :
        LET ss == session_state[s]
            Kept(after) ==
                /\ SameEntry(after, ss, ResultKey(other))
                /\ SameEntry(after, ss, ReportKey(other))
                /\ SameEntry(after, ss, HistoryKey(other))
        IN  (other # k /\ TabsVisible(ss)) =>
                /\ \A t \in ArticleTexts, dp \in BOOLEAN :
                    \A r \in ConvertReplies(t) :
                        \A pr \in ConvertProofreadReplies(t, dp, r) :
                            Kept(convert_click(ss, k, t, dp, r, pr).ss)
                /\ Has(ss, ResultKey(k)) =>
                    \A q \in RevisionRequests :
                        \A r \in ReviseReplies(q) :
                            Kept(revise_click(ss, k, q, r).ss)
                /\ Kept(clear_click(ss).ss)

\* C23 (SpecCalls): a convert click with empty or whitespace-only input and a
\* revise click with an empty or whitespace-only request leave the stored
\* result and report of the sub-workflow unchanged and show only the
\* validation warning; while such a warning is on screen no call to the
\* generation service is outstanding in the session.
BlankInputMakesNoCall ==
    \A s \in Sessions, k \in Kinds :
        LET ss == session_state[s]
        IN  /\ \A t \in ArticleTexts, dp \in BOOLEAN :
                LET run == convert_click(ss, k, t, dp, NoCall, NoCall)
                IN  (TabsVisible(ss) /\ strip(t) = <<>>) =>
                        /\ SameEntry(run.ss, ss, ResultKey(k))
                        /\ SameEntry(run.ss, ss, ReportKey(k))
                        /\ run.shown = <<Msg("warning", "empty_input")>>
            /\ \A q \in RevisionRequests :
                LET run == revise_click(ss, k, q, NoCall)
                IN  (TabsVisible(ss) /\ Has(ss, ResultKey(k))
                        /\ strip(q) = <<>>) =>
                        /\ SameEntry(run.ss, ss, ResultKey(k))
                        /\ SameEntry(run.ss, ss, ReportKey(k))
                        /\ run.shown = <<Msg("warning", "empty_request")>>
            /\ (shown[s] \in {<<Msg("warning", "empty_input")>>,
                              <<Msg("warning", "empty_request")>>}) =>
                    in_flight[s] = {}

\* C23 witness: the warning for an empty revision request is on screen, no
\* call is outstanding, and the sub-workflow holds its result and report.
BlankRequestWarned ==
    \E s \in Sessions, k \in Kinds :
        /\ shown[s] = <<Msg("warning", "empty_request")>>
        /\ in_flight[s] = {}
        /\ Has(session_state[s], ResultKey(k))
        /\ Has(session_state[s], ReportKey(k))

ProofreadReturns ==
    {shown[s][1] : s \in {x \in Sessions :
        /\ shown[x] # NoMessages
        /\ DOMAIN shown[x][1] = {"call", "kind", "outcome", "returned"}}}

\* The start positions of the occurrences of the primary marker (a black
\* square, any whitespace, the two characters of "issue", a digit) and of the
\* looser marker (the two characters of "proofreading", a colon).
PrimaryOccurrences(report) ==
    {i \in 1..Len(report) :
        /\ report[i] = BlackSquare
        /\ \E j \in (i + 1)..(Len(report) - 2) :
            /\ \A k \in (i + 1)..(j - 1) : report[k] \in Whitespace
            /\ report[j] = Shi
            /\ report[j + 1] = Teki
            /\ report[j + 2] \in Digits}

LooseOccurrences(report) ==
    {i \in 1..(Len(report) - 2) :
        /\ report[i] = Kou
        /\ report[i + 1] = Etsu
        /\ report[i + 2] \in Colons}

\* C24 (SpecProofread): a successful proofread returns the report with an
\* issue count that is a natural number, equal to the number of occurrences
\* of the primary marker in the report when there is one, and to the number
\* of occurrences of the looser marker otherwise; a failed proofread returns
\* issue count 0 and no report.
IssueCountFromMarkers ==
    \A c \in ProofreadReturns :
        LET res == c.returned
        IN  /\ c.outcome.at = "reply" =>
                LET primary == Cardinality(PrimaryOccurrences(c.outcome.text))
                    loose == Cardinality(LooseOccurrences(c.outcome.text))
                IN  /\ res.success = TRUE
                    /\ res.report = c.outcome.text
                    /\ res.issues_count \in Nat
                    /\ primary > 0 => res.issues_count = primary
                    /\ primary = 0 => res.issues_count = loose
            /\ c.outcome.at # "reply" =>
                /\ res.success = FALSE
                /\ res.issues_count = 0
                /\ res.report = None

\* C24 witness: a proofread has returned a report without the primary marker
\* and with two occurrences of the looser one, counted as two issues.
IssuesCountedByLooseMarker ==
    \E c \in ProofreadReturns :
        /\ c.outcome.at = "reply"
        /\ PrimaryOccurrences(c.outcome.text) = {}
        /\ c.returned.issues_count = 2

\* C25 (SpecStore): remove(u) changes at most the record of u: when u is
\* absent from the store or u is "admin" the store is as before; otherwise
\* the store has the same usernames without u, and the record of every other
\* username (name, password digest, role) is as before.
RemoveChangesOnlyItsRecord ==
    \A s \in Sessions, u \in StoreUsernames :
        LET users == get_users(session_state[s])
            after == get_users(delete_user(session_state[s], u))
        IN  IF ~Has(users, u) \/ u = "admin"
            THEN after = users
            ELSE /\ DOMAIN after = DOMAIN users \ {u}
                 /\ \A v \in DOMAIN after : after[v] = users[v]

\* C25 witness: remove("u1") was the last call and has removed the record,
\* next to the records of "admin" and "u2".
RemovedOneOfThree ==
    \E s \in Sessions :
        /\ shown[s] = <<[call |-> "remove", username |-> "u1"]>>
        /\ DOMAIN get_users(session_state[s]) = {"admin", "u2"}

\* C26 (Spec): in every reachable session state and for each sub-workflow, a
\* stored proofread report or a non-empty revision history implies that a
\* conversion result is stored for that sub-workflow.
ReportAndHistoryNeedResult ==
    \A s \in Sessions, k \in Kinds :
        LET ss == session_state[s]
        IN  (Has(ss, ReportKey(k)) \/ Get(ss, HistoryKey(k), <<>>) # <<>>) =>
                Has(ss, ResultKey(k))

\* C26 witness: a sub-workflow holds a result, a proofread report and a
\* non-empty revision history.
ResultReportAndHistoryStored ==
    \E s \in Sessions, k \in Kinds :
        /\ Has(session_state[s], ResultKey(k))
        /\ Has(session_state[s], ReportKey(k))
        /\ Get(session_state[s], HistoryKey(k), <<>>) # <<>>

\* C27 (SpecAdmin): a session that is not authenticated or whose role
\* captured at login is not admin is not shown the admin page even when its
\* page variable is set to admin; and the credential store of a session
\* changes only in a step taken from the admin page of a session
\* authenticated with role admin.
StoreChangesOnlyOnAdminPage ==
    /\ [](\A s \in Sessions :
            LET ss == session_state[s]
            IN  (~Authenticated(ss) \/ Get(ss, "user_role", None) # "admin")
                    => ~AdminVisible(Put(ss, "page", "admin")))
    /\ [][\A s \in Sessions :
            LET ss == session_state[s]
            IN  get_users(session_state'[s]) # get_users(ss) =>
                    /\ Authenticated(ss)
                    /\ Get(ss, "user_role", None) = "admin"
                    /\ Page(ss) = "admin"
                    /\ \/ \E u \in LoginNames : DeleteClick(s, u)
                       \/ Add(s)
         ]_vars

\* C27 witness: the admin page is on screen and the store holds a record
\* added from it.
AddedFromAdminPage ==
    \E s \in Sessions :
        /\ AdminVisible(session_state[s])
        /\ Has(get_users(session_state[s]), "u2")

\* The password of the seeded admin record.
SeededAdminPassword ==
    IF Has(secrets, "users") THEN <<"1", "2", "3">> ELSE AdminDefaultPassword

\* C28 (SpecAdmin): in every store state reached through the add form and the
\* delete buttons of the admin page, the record under "admin" (name, password
\* digest, role) is the seeded one, and the seeded admin credentials verify.
AdminRecordStaysSeeded ==
    \A s \in Sessions :
        LET users == get_users(session_state[s])
        IN  /\ Has(users, "admin")
            /\ users["admin"] = get_initial_users(secrets)["admin"]
            /\ check_password(users, "admin", SeededAdminPassword)

\* C28 witness: the admin page is on screen after an add and a delete: the
\* store holds "u2" and no longer holds the configured "u1".
AddedAndDeletedByAdmin ==
    \E s \in Sessions :
        /\ AdminVisible(session_state[s])
        /\ Has(get_initial_users(secrets), "u1")
        /\ DOMAIN get_users(session_state[s]) = {"admin", "u2"}

\* C29 (SpecAdmin): the username of an authenticated session is a key of the
\* credential store the session uses, and the session's role is the role
\* stored for that username.
AuthenticatedUserIsStored ==
    \A s \in Sessions :
        LET ss == session_state[s]
        IN  Authenticated(ss) =>
                /\ Has(get_users(ss), ss["username"])
                /\ ss["user_role"] = get_users(ss)[ss["username"]].role

====
